---- MODULE Spec2Model ----
(***************************************************************************)
(* The supervisor / generator protocol of 3-Color-Approximation:           *)
(* one supervisor (coordinator, supervisormain.c) and several generators   *)
(* (workers, generatormain.c) exchanging candidate solutions through the   *)
(* circular buffer of sharedmem.h, synchronised by three POSIX semaphores. *)
(*                                                                         *)
(* Every access to shared memory or to a semaphore is one step.  A signal  *)
(* (SIGINT/SIGTERM) is delivered to the supervisor by the environment.     *)
(* The shared memory object is new, hence zero filled by ftruncate.        *)
(* sizeof of an array parameter is the size of a pointer: the LP64 value 8 *)
(* is modelled.                                                            *)
(*                                                                         *)
(* History variables (not program state): written, nread, signals,         *)
(* published, last_read, rd_permit, blocked_at_shutdown, holders (the     *)
(* processes between a sem_wait and the next sem_post of mutex_sem, 0 is   *)
(* the supervisor), cap, rcap, the fields tag, etag, fresh of a slot, the   *)
(* field slot of a printed line, read_min (the least value readBuff has    *)
(* returned), improved (the number of reads that returned less than every  *)
(* read before), count_at_shutdown (generator_count at line 157) and       *)
(* late_acquires (the sem_wait(free_sem) calls of a generator that          *)
(* returned while state was 1).                                             *)
(***************************************************************************)
EXTENDS Integers, Sequences, FiniteSets, TLC

\* ---------------------------------------------------------------- constants
MAX_DATA == 128

MAX_SOLUTION_EDGES == 12

INT_MAX == 2147483647

\* sizeof(edges_to_read), sizeof(edges_to_write): a removedEdge* on LP64
SIZEOF_PTR == 8

\* ------------------------------------------------------------------- bounds
\* completed writeBuff calls per generator in the short configuration
MaxWrites == 1

\* completed writeBuff calls of the generator in the wrap configuration
WrapWrites == 9

\* completed readBuff calls before the signal in the wrap configuration
WrapReads == 9

\* completed writeBuff calls of the generator in the full configuration
FullWrites == 129

\* completed readBuff calls before the signal in the full configuration
FullReads == 1

\* completed writeBuff calls of the generator in the best-candidate configuration
BestWrites == 3

\* completed readBuff calls before the signal in the best-candidate configuration
BestReads == 3

\* signals delivered to the supervisor
MaxSignals == 1

\* the generator processes that may be launched
Workers == {1, 2}

VARIABLES
  used_sem, free_sem, mutex_sem,      \* values of the three named semaphores
  state, generator_count, buf,        \* struct myshm
  unlinked,                           \* the names have been unlinked
  c_pc, quit, rd_pos, temp, curr_best_solution, i, printed, summary,
  pc, edges, removed_edges, wr_pos, gc_reg,
  written, nread, signals, published, last_read, rd_permit,
  blocked_at_shutdown, holders, cap, rcap,
  read_min, improved, count_at_shutdown, late_acquires

shm_vars == <<state, generator_count, buf, unlinked>>

sem_vars == <<used_sem, free_sem, mutex_sem>>

sup_vars == <<c_pc, quit, rd_pos, temp, curr_best_solution, i, printed, summary>>

gen_vars == <<pc, edges, removed_edges, wr_pos, gc_reg>>

\* what an observer of the reads and of the shutdown has recorded
obs_vars == <<read_min, improved, count_at_shutdown, late_acquires>>

hist_vars == <<written, nread, signals, published, last_read, rd_permit, blocked_at_shutdown, holders, cap, rcap, obs_vars>>

vars == <<sem_vars, shm_vars, sup_vars, gen_vars, hist_vars>>

\* ------------------------------------------------------------ data, helpers
Edge(s, d) == [source |-> s, destination |-> d]

\* a slot of a zero filled shared memory object
ZeroSlot == [numOfEdges |-> 0, edges |-> <<>>, tag |-> <<0, 0>>, etag |-> <<0, 0>>, fresh |-> FALSE]

\* removed_edges[p] of struct myshm; buf holds only the slots written so far
Slot(p) == IF p \in DOMAIN buf THEN buf[p] ELSE ZeroSlot

\* removed_edges[p].edges[j], j counted from 1; entries never written are zero
SlotEdge(p, j) == IF j <= Len(Slot(p).edges) THEN Slot(p).edges[j] ELSE Edge(0, 0)

SetSlot(p, s) == [q \in (DOMAIN buf) \cup {p} |-> IF q = p THEN s ELSE buf[q]]

\* rd_pos += 1; rd_pos %= sizeof(edges_to_read)
AdvanceRead(p) == (p + 1) % SIZEOF_PTR

\* wr_pos += 1; wr_pos %= sizeof(edges_to_write)
AdvanceWrite(p) == (p + 1) % SIZEOF_PTR

\* mutant of Publishable: the limit is off by one
PublishableOffByOne(count) == count <= MAX_SOLUTION_EDGES + 1

\* if (removed_edges_count <= MAX_SOLUTION_EDGES)
Publishable(count) == count <= MAX_SOLUTION_EDGES

\* mutant of StateSet: the loop test compares with a value state never has
StateSetNever(s) == s = 2

\* while (myshm->state != 1): the loop is left when state is 1
StateSet(s) == s = 1

\* mutant of Improves: a candidate as good as the best is reported again
ImprovesOrEqual(count, best) == count <= best

\* if (temp < curr_best_solution)
Improves(count, best) == count < best

\* the first val entries of the slot are overwritten, the rest is kept
OverwriteEdges(old, new) == new \o SubSeq(old, Len(new) + 1, Len(old))

\* numOfVertices = max + 1, max taken from the last edge argument
NumOfVertices(es) == IF es[Len(es)].source > es[Len(es)].destination THEN es[Len(es)].source + 1 ELSE es[Len(es)].destination + 1

RECURSIVE SolveFrom(_, _, _, _)
SolveFrom(color_indices, es, e, removed) ==
  IF e > Len(es) THEN removed
  ELSE IF color_indices[es[e].source] = color_indices[es[e].destination]
       THEN SolveFrom(color_indices, es, e + 1, Append(removed, Edge(es[e].destination, es[e].source)))
       ELSE SolveFrom(color_indices, es, e + 1, removed)

solveColorProblem(color_indices, es) == SolveFrom(color_indices, es, 1, <<>>)

\* randomizeColors: every vertex gets a colour 1 + rand() % 3
randomizeColors(numOfVertices) == [0..(numOfVertices - 1) -> 1..3]

\* the candidates one round of the heuristic can produce for a graph
Candidates(es) == {solveColorProblem(c, es) : c \in randomizeColors(NumOfVertices(es))}

\* ------------------------------------------------------------------- inputs
GraphEdge == <<Edge(0, 1)>>

GraphLoop == <<Edge(0, 0)>>

GraphBig == [j \in 1..(MAX_SOLUTION_EDGES + 1) |-> Edge(0, 0)]

NoRead == [slot |-> 0 - 1, tag |-> <<0, 0>>, kind |-> "none", permit |-> FALSE]

\* --------------------------------------------------------------------- Init
\* the state after the supervisor has created the semaphores and the shared
\* memory object (lines 127-131) and before it runs line 135
InitCommon ==
  /\ used_sem = 0
  /\ free_sem = MAX_DATA
  /\ mutex_sem = 1
  /\ state = 0
  /\ generator_count = 0
  /\ buf = <<>>
  /\ unlinked = FALSE
  /\ c_pc = "c_init"
  /\ quit = 0
  /\ rd_pos = 0
  /\ temp = 0
  /\ curr_best_solution = INT_MAX
  /\ i = 0
  /\ printed = <<>>
  /\ summary = 0 - 1
  /\ removed_edges = [w \in Workers |-> <<>>]
  /\ wr_pos = [w \in Workers |-> 0]
  /\ gc_reg = [w \in Workers |-> 0]
  /\ written = [w \in Workers |-> 0]
  /\ nread = 0
  /\ signals = 0
  /\ published = {}
  /\ last_read = NoRead
  /\ rd_permit = FALSE
  /\ blocked_at_shutdown = {}
  /\ holders = {}
  /\ read_min = INT_MAX
  /\ improved = 0
  /\ count_at_shutdown = 0 - 1
  /\ late_acquires = [w \in Workers |-> 0]

\* short configuration: both generators may be launched; the first on one
\* edge (candidates of 0 or 1 edges) or on the large graph, the second on a
\* loop (candidates of 1 edge) or on the large graph
Init ==
  /\ InitCommon
  /\ pc = [w \in Workers |-> "w_idle"]
  /\ edges \in {<<a, b>> : a \in {GraphEdge, GraphBig}, b \in {GraphLoop, GraphBig}}
  /\ cap = MaxWrites
  /\ rcap = Cardinality(Workers) * MaxWrites + MaxSignals

\* one generator only, on a graph whose candidates all have one edge
InitSingle ==
  /\ InitCommon
  /\ pc = [w \in Workers |-> IF w = 1 THEN "w_idle" ELSE "w_absent"]
  /\ edges = [w \in Workers |-> GraphLoop]

\* wrap configuration: the generator and the supervisor go once round the cursor
InitWrap ==
  /\ InitSingle
  /\ cap = WrapWrites
  /\ rcap = WrapReads

\* full configuration: the generator can fill the buffer
InitFull ==
  /\ InitSingle
  /\ cap = FullWrites
  /\ rcap = FullReads

\* best-candidate configuration: one generator on one edge, whose candidates
\* have 0 or 1 edges
InitBest ==
  /\ InitCommon
  /\ pc = [w \in Workers |-> IF w = 1 THEN "w_idle" ELSE "w_absent"]
  /\ edges = [w \in Workers |-> GraphEdge]
  /\ cap = BestWrites
  /\ rcap = BestReads

\* --------------------------------------------------------------- supervisor
\* line 135: myshm->generator_count = 0
CInitCount ==
  /\ c_pc = "c_init"
  /\ generator_count' = 0
  /\ c_pc' = "c_loop"
  /\ UNCHANGED <<sem_vars, state, buf, unlinked, quit, rd_pos, temp, curr_best_solution, i, printed, summary, gen_vars, hist_vars>>

\* line 138: while (!quit)
CLoop ==
  /\ c_pc = "c_loop"
  /\ c_pc' = IF quit = 0 THEN "c_wait_used" ELSE "c_lock"
  /\ UNCHANGED <<sem_vars, shm_vars, quit, rd_pos, temp, curr_best_solution, i, printed, summary, gen_vars, hist_vars>>

\* line 102: sem_wait(used_sem) is entered; it returns at once or blocks.
\* rcap bounds the number of reads of the model before the signal.
CWaitUsed ==
  /\ c_pc = "c_wait_used"
  /\ nread < rcap \/ quit = 1
  /\ IF used_sem > 0
     THEN used_sem' = used_sem - 1 /\ c_pc' = "c_read" /\ rd_permit' = TRUE
     ELSE used_sem' = used_sem /\ c_pc' = "c_blocked" /\ rd_permit' = rd_permit
  /\ UNCHANGED <<free_sem, mutex_sem, shm_vars, quit, rd_pos, temp, curr_best_solution, i, printed, summary, gen_vars>>
  /\ UNCHANGED <<written, nread, signals, published, last_read, blocked_at_shutdown, holders, cap, rcap, obs_vars>>

\* line 102: the blocked sem_wait(used_sem) gets a unit
CWakeUsed ==
  /\ c_pc = "c_blocked"
  /\ used_sem > 0
  /\ used_sem' = used_sem - 1
  /\ c_pc' = "c_read"
  /\ rd_permit' = TRUE
  /\ UNCHANGED <<free_sem, mutex_sem, shm_vars, quit, rd_pos, temp, curr_best_solution, i, printed, summary, gen_vars>>
  /\ UNCHANGED <<written, nread, signals, published, last_read, blocked_at_shutdown, holders, cap, rcap, obs_vars>>

\* lines 35-37, 45-49: a signal runs handle_signal; no SA_RESTART, so a
\* blocked sem_wait returns -1 (EINTR), which readBuff does not test
Signal ==
  /\ c_pc # "c_done"
  /\ signals < MaxSignals
  /\ signals' = signals + 1
  /\ quit' = 1
  /\ IF c_pc = "c_blocked"
     THEN c_pc' = "c_read" /\ rd_permit' = FALSE
     ELSE c_pc' = c_pc /\ rd_permit' = rd_permit
  /\ UNCHANGED <<sem_vars, shm_vars, rd_pos, temp, curr_best_solution, i, printed, summary, gen_vars>>
  /\ UNCHANGED <<written, nread, published, last_read, blocked_at_shutdown, holders, cap, rcap, obs_vars>>

\* line 103: removed_edges_count = edges_to_read[rd_pos].numOfEdges
CRead ==
  /\ c_pc = "c_read"
  /\ temp' = Slot(rd_pos).numOfEdges
  /\ last_read' = [slot |-> rd_pos, tag |-> Slot(rd_pos).tag, permit |-> rd_permit,
                   kind |-> IF Slot(rd_pos).tag = <<0, 0>> THEN "unwritten"
                            ELSE IF Slot(rd_pos).fresh THEN "fresh" ELSE "stale"]
  /\ buf' = IF rd_pos \in DOMAIN buf THEN [buf EXCEPT ![rd_pos].fresh = FALSE] ELSE buf
  /\ read_min' = IF Slot(rd_pos).numOfEdges < read_min THEN Slot(rd_pos).numOfEdges ELSE read_min
  /\ improved' = IF Slot(rd_pos).numOfEdges < read_min THEN improved + 1 ELSE improved
  /\ c_pc' = "c_post_free"
  /\ UNCHANGED <<sem_vars, state, generator_count, unlinked, quit, rd_pos, curr_best_solution, i, printed, summary, gen_vars>>
  /\ UNCHANGED <<written, nread, signals, published, rd_permit, blocked_at_shutdown, holders, cap, rcap, count_at_shutdown, late_acquires>>

\* lines 104-107: sem_post(free_sem), advance rd_pos, return
CPostFree ==
  /\ c_pc = "c_post_free"
  /\ free_sem' = free_sem + 1
  /\ rd_pos' = AdvanceRead(rd_pos)
  /\ nread' = nread + 1
  /\ c_pc' = "c_eval"
  /\ UNCHANGED <<used_sem, mutex_sem, shm_vars, quit, temp, curr_best_solution, i, printed, summary, gen_vars>>
  /\ UNCHANGED <<written, signals, published, last_read, rd_permit, blocked_at_shutdown, holders, cap, rcap, obs_vars>>

\* lines 140-153: the body of the drain loop; the edges are printed from
\* removed_edges[rd_pos] after rd_pos has been advanced.  last_read describes
\* the read of the current iteration and is forgotten when the loop goes on.
CEval ==
  /\ c_pc = "c_eval"
  /\ IF temp = 0
     THEN /\ curr_best_solution' = 0
          /\ UNCHANGED <<printed, last_read>>
          /\ c_pc' = "c_lock"
     ELSE IF Improves(temp, curr_best_solution)
          THEN /\ printed' = Append(printed, [count |-> temp, edges |-> [j \in 1..temp |-> SlotEdge(rd_pos, j)],
                                             from |-> rd_pos, slot |-> last_read.slot])
               /\ curr_best_solution' = temp
               /\ last_read' = NoRead
               /\ c_pc' = "c_loop"
          ELSE /\ UNCHANGED <<printed, curr_best_solution>>
               /\ last_read' = NoRead
               /\ c_pc' = "c_loop"
  /\ UNCHANGED <<sem_vars, shm_vars, quit, rd_pos, temp, i, summary, gen_vars>>
  /\ UNCHANGED <<written, nread, signals, published, rd_permit, blocked_at_shutdown, holders, cap, rcap, obs_vars>>

\* line 156: sem_wait(mutex_sem)
CLock ==
  /\ c_pc = "c_lock"
  /\ mutex_sem > 0
  /\ mutex_sem' = mutex_sem - 1
  /\ c_pc' = "c_set_state"
  /\ UNCHANGED <<used_sem, free_sem, shm_vars, quit, rd_pos, temp, curr_best_solution, i, printed, summary, gen_vars, written, nread, signals, published, last_read, rd_permit, blocked_at_shutdown, cap, rcap, obs_vars>>
  /\ holders' = holders \cup {0}

\* line 157: myshm->state = 1
CSetState ==
  /\ c_pc = "c_set_state"
  /\ state' = 1
  /\ blocked_at_shutdown' = {w \in Workers : pc[w] = "w_wait_free" /\ free_sem = 0}
  /\ c_pc' = "c_unlock"
  /\ UNCHANGED <<sem_vars, generator_count, buf, unlinked, quit, rd_pos, temp, curr_best_solution, i, printed, summary, gen_vars>>
  /\ count_at_shutdown' = generator_count
  /\ UNCHANGED <<written, nread, signals, published, last_read, rd_permit, holders, cap, rcap, read_min, improved, late_acquires>>

\* line 158: sem_post(mutex_sem); line 160: i = 0
CUnlock ==
  /\ c_pc = "c_unlock"
  /\ mutex_sem' = mutex_sem + 1
  /\ i' = 0
  /\ c_pc' = "c_fanout"
  /\ UNCHANGED <<used_sem, free_sem, shm_vars, quit, rd_pos, temp, curr_best_solution, printed, summary, gen_vars, written, nread, signals, published, last_read, rd_permit, blocked_at_shutdown, cap, rcap, obs_vars>>
  /\ holders' = holders \ {0}

\* lines 160-162: for (i = 0; i < myshm->generator_count; i++) sem_post(free_sem)
CFanout ==
  /\ c_pc = "c_fanout"
  /\ IF i < generator_count
     THEN free_sem' = free_sem + 1 /\ i' = i + 1 /\ c_pc' = "c_fanout"
     ELSE free_sem' = free_sem /\ i' = i /\ c_pc' = "c_report"
  /\ UNCHANGED <<used_sem, mutex_sem, shm_vars, quit, rd_pos, temp, curr_best_solution, printed, summary, gen_vars, hist_vars>>

\* lines 164-168: the summary line, and the verdict when the best is 0
CReport ==
  /\ c_pc = "c_report"
  /\ summary' = curr_best_solution
  /\ c_pc' = "c_cleanup"
  /\ UNCHANGED <<sem_vars, shm_vars, quit, rd_pos, temp, curr_best_solution, i, printed, gen_vars, hist_vars>>

\* lines 172-174: closeSemaphores, unmapSHM, unlinkRessources
CCleanup ==
  /\ c_pc = "c_cleanup"
  /\ unlinked' = TRUE
  /\ c_pc' = "c_done"
  /\ UNCHANGED <<sem_vars, state, generator_count, buf, quit, rd_pos, temp, curr_best_solution, i, printed, summary, gen_vars, hist_vars>>

Supervisor ==
  \/ CInitCount
  \/ CLoop
  \/ CWaitUsed
  \/ CWakeUsed
  \/ CRead
  \/ CPostFree
  \/ CEval
  \/ CLock
  \/ CSetState
  \/ CUnlock
  \/ CFanout
  \/ CReport
  \/ CCleanup

\* ---------------------------------------------------------------- generator
\* lines 102-146: parse the edges, compute a first candidate, open the shared
\* memory object and the semaphores
WStart(w) ==
  /\ pc[w] = "w_idle"
  /\ ~unlinked
  /\ \E cand \in Candidates(edges[w]) : removed_edges' = [removed_edges EXCEPT ![w] = cand]
  /\ pc' = [pc EXCEPT ![w] = "w_reg_post"]
  /\ UNCHANGED <<sem_vars, shm_vars, sup_vars, edges, wr_pos, gc_reg, hist_vars>>

\* line 144 (sharedmem.c 70-76): shm_open of the unlinked name fails, printErrAndExit
WStartFail(w) ==
  /\ pc[w] = "w_idle"
  /\ unlinked
  /\ pc' = [pc EXCEPT ![w] = "w_failed"]
  /\ UNCHANGED <<sem_vars, shm_vars, sup_vars, edges, removed_edges, wr_pos, gc_reg, hist_vars>>

\* line 150: sem_post(mutex_sem)
WRegPost(w) ==
  /\ pc[w] = "w_reg_post"
  /\ mutex_sem' = mutex_sem + 1
  /\ pc' = [pc EXCEPT ![w] = "w_reg_load"]
  /\ UNCHANGED <<used_sem, free_sem, shm_vars, sup_vars, edges, removed_edges, wr_pos, gc_reg, written, nread, signals, published, last_read, rd_permit, blocked_at_shutdown, cap, rcap, obs_vars>>
  /\ holders' = holders \ {w}

\* line 151: the load of myshm->generator_count += 1
WRegLoad(w) ==
  /\ pc[w] = "w_reg_load"
  /\ gc_reg' = [gc_reg EXCEPT ![w] = generator_count]
  /\ pc' = [pc EXCEPT ![w] = "w_reg_store"]
  /\ UNCHANGED <<sem_vars, shm_vars, sup_vars, edges, removed_edges, wr_pos, hist_vars>>

\* line 151: the store of myshm->generator_count += 1 (the register is dead afterwards)
WRegStore(w) ==
  /\ pc[w] = "w_reg_store"
  /\ generator_count' = gc_reg[w] + 1
  /\ gc_reg' = [gc_reg EXCEPT ![w] = 0]
  /\ pc' = [pc EXCEPT ![w] = "w_reg_wait"]
  /\ UNCHANGED <<sem_vars, state, buf, unlinked, sup_vars, edges, removed_edges, wr_pos, hist_vars>>

\* line 152: sem_wait(mutex_sem)
WRegWait(w) ==
  /\ pc[w] = "w_reg_wait"
  /\ mutex_sem > 0
  /\ mutex_sem' = mutex_sem - 1
  /\ pc' = [pc EXCEPT ![w] = "w_check"]
  /\ UNCHANGED <<used_sem, free_sem, shm_vars, sup_vars, edges, removed_edges, wr_pos, gc_reg, written, nread, signals, published, last_read, rd_permit, blocked_at_shutdown, cap, rcap, obs_vars>>
  /\ holders' = holders \cup {w}

\* lines 156-157 and 162-164: the loop test reads myshm->state; a candidate
\* within the limit goes on to line 158, a larger one is replaced by the next
\* round of the heuristic; once the loop is left the candidate is dead.
\* cap bounds the number of writes of the model.
WCheck(w) ==
  /\ pc[w] = "w_check"
  /\ IF StateSet(state)
     THEN /\ pc' = [pc EXCEPT ![w] = "w_exit"]
          /\ removed_edges' = [removed_edges EXCEPT ![w] = <<>>]
     ELSE IF Publishable(Len(removed_edges[w]))
          THEN /\ written[w] < cap
               /\ pc' = [pc EXCEPT ![w] = "w_unlock"]
               /\ UNCHANGED removed_edges
          ELSE /\ \E cand \in Candidates(edges[w]) : removed_edges' = [removed_edges EXCEPT ![w] = cand]
               /\ UNCHANGED pc
  /\ UNCHANGED <<sem_vars, shm_vars, sup_vars, edges, wr_pos, gc_reg, hist_vars>>

\* line 158: sem_post(mutex_sem)
WUnlock(w) ==
  /\ pc[w] = "w_unlock"
  /\ mutex_sem' = mutex_sem + 1
  /\ pc' = [pc EXCEPT ![w] = "w_wait_free"]
  /\ UNCHANGED <<used_sem, free_sem, shm_vars, sup_vars, edges, removed_edges, wr_pos, gc_reg, written, nread, signals, published, last_read, rd_permit, blocked_at_shutdown, cap, rcap, obs_vars>>
  /\ holders' = holders \ {w}

\* mutant of WWaitFree: the wait returns without taking a unit
WWaitFreeTakesNothing(w) ==
  /\ pc[w] = "w_wait_free"
  /\ free_sem > 0
  /\ pc' = [pc EXCEPT ![w] = "w_write_n"]
  /\ UNCHANGED <<sem_vars, shm_vars, sup_vars, edges, removed_edges, wr_pos, gc_reg, hist_vars>>

\* line 55: sem_wait(free_sem)
WWaitFree(w) ==
  /\ pc[w] = "w_wait_free"
  /\ free_sem > 0
  /\ free_sem' = free_sem - 1
  /\ late_acquires' = [late_acquires EXCEPT ![w] = IF state = 1 THEN @ + 1 ELSE @]
  /\ pc' = [pc EXCEPT ![w] = "w_write_n"]
  /\ UNCHANGED <<used_sem, mutex_sem, shm_vars, sup_vars, edges, removed_edges, wr_pos, gc_reg>>
  /\ UNCHANGED <<written, nread, signals, published, last_read, rd_permit, blocked_at_shutdown, holders, cap, rcap>>
  /\ UNCHANGED <<read_min, improved, count_at_shutdown>>

\* line 56: edges_to_write[wr_pos].numOfEdges = val
WWriteCount(w) ==
  /\ pc[w] = "w_write_n"
  /\ buf' = SetSlot(wr_pos[w], [Slot(wr_pos[w]) EXCEPT !.numOfEdges = Len(removed_edges[w]),
                                                      !.tag = <<w, written[w] + 1>>,
                                                      !.fresh = TRUE])
  /\ pc' = [pc EXCEPT ![w] = "w_write_e"]
  /\ UNCHANGED <<sem_vars, state, generator_count, unlinked, sup_vars, edges, removed_edges, wr_pos, gc_reg, hist_vars>>

\* lines 57-60: the first val edges of the slot
WWriteEdges(w) ==
  /\ pc[w] = "w_write_e"
  /\ buf' = SetSlot(wr_pos[w], [Slot(wr_pos[w]) EXCEPT !.edges = OverwriteEdges(@, removed_edges[w]),
                                                      !.etag = <<w, written[w] + 1>>])
  /\ pc' = [pc EXCEPT ![w] = "w_post_used"]
  /\ UNCHANGED <<sem_vars, state, generator_count, unlinked, sup_vars, edges, removed_edges, wr_pos, gc_reg, hist_vars>>

\* lines 61-63: sem_post(used_sem), advance wr_pos, return
WPostUsed(w) ==
  /\ pc[w] = "w_post_used"
  /\ used_sem' = used_sem + 1
  /\ wr_pos' = [wr_pos EXCEPT ![w] = AdvanceWrite(@)]
  /\ written' = [written EXCEPT ![w] = @ + 1]
  /\ published' = published \cup {Len(removed_edges[w])}
  /\ pc' = [pc EXCEPT ![w] = "w_relock"]
  /\ UNCHANGED <<free_sem, mutex_sem, shm_vars, sup_vars, edges, removed_edges, gc_reg>>
  /\ UNCHANGED <<nread, signals, last_read, rd_permit, blocked_at_shutdown, holders, cap, rcap, obs_vars>>

\* line 160: sem_wait(mutex_sem); lines 162-164: the next candidate
WRelock(w) ==
  /\ pc[w] = "w_relock"
  /\ mutex_sem > 0
  /\ mutex_sem' = mutex_sem - 1
  /\ \E cand \in Candidates(edges[w]) : removed_edges' = [removed_edges EXCEPT ![w] = cand]
  /\ pc' = [pc EXCEPT ![w] = "w_check"]
  /\ UNCHANGED <<used_sem, free_sem, shm_vars, sup_vars, edges, wr_pos, gc_reg, written, nread, signals, published, last_read, rd_permit, blocked_at_shutdown, cap, rcap, obs_vars>>
  /\ holders' = holders \cup {w}

\* mutant of WExit: the leaving generator clears state
WExitClearsState(w) ==
  /\ pc[w] = "w_exit"
  /\ pc' = [pc EXCEPT ![w] = "w_done"]
  /\ state' = 0
  /\ holders' = holders \ {w}
  /\ UNCHANGED <<sem_vars, generator_count, buf, unlinked, sup_vars, edges, removed_edges, wr_pos, gc_reg>>
  /\ UNCHANGED <<written, nread, signals, published, last_read, rd_permit, blocked_at_shutdown, cap, rcap, obs_vars>>

\* mutant of WExit: the leaving generator unlinks the names
WExitUnlinks(w) ==
  /\ pc[w] = "w_exit"
  /\ pc' = [pc EXCEPT ![w] = "w_done"]
  /\ unlinked' = TRUE
  /\ holders' = holders \ {w}
  /\ UNCHANGED <<sem_vars, state, generator_count, buf, sup_vars, edges, removed_edges, wr_pos, gc_reg>>
  /\ UNCHANGED <<written, nread, signals, published, last_read, rd_permit, blocked_at_shutdown, cap, rcap, obs_vars>>

\* lines 168-173: unmapSHM, closeSemaphores, return
WExit(w) ==
  /\ pc[w] = "w_exit"
  /\ pc' = [pc EXCEPT ![w] = "w_done"]
  /\ UNCHANGED <<sem_vars, shm_vars, sup_vars, edges, removed_edges, wr_pos, gc_reg, written, nread, signals, published, last_read, rd_permit, blocked_at_shutdown, cap, rcap, obs_vars>>
  /\ holders' = holders \ {w}

Generator(w) ==
  \/ WStart(w)
  \/ WStartFail(w)
  \/ WRegPost(w)
  \/ WRegLoad(w)
  \/ WRegStore(w)
  \/ WRegWait(w)
  \/ WCheck(w)
  \/ WUnlock(w)
  \/ WWaitFree(w)
  \/ WWriteCount(w)
  \/ WWriteEdges(w)
  \/ WPostUsed(w)
  \/ WRelock(w)
  \/ WExit(w)

Next ==
  \/ Supervisor
  \/ Signal
  \/ \E w \in Workers : Generator(w)

Spec == Init /\ [][Next]_vars

SpecWrap == InitWrap /\ [][Next]_vars

SpecFull == InitFull /\ [][Next]_vars

SpecBest == InitBest /\ [][Next]_vars

\* every process that can take a step is scheduled eventually; signals and
\* launches of generators are up to the environment
Fairness == WF_vars(Supervisor) /\ \A w \in Workers : WF_vars(Generator(w))

FairFull == InitFull /\ [][Next]_vars /\ Fairness

FairSpec == Init /\ [][Next]_vars /\ Fairness

\* ------------------------------------------------------------------ claims
RECURSIVE SumOver(_, _)
SumOver(f, S) == IF S = {} THEN 0 ELSE LET x == CHOOSE y \in S : TRUE IN f[x] + SumOver(f, S \ {x})

\* writes issued minus reads completed
Outstanding == SumOver(written, Workers) - nread

\* the generators that have completed line 151
Registered == {w \in Workers : pc[w] \in {"w_reg_wait", "w_check", "w_unlock", "w_wait_free", "w_write_n", "w_write_e", "w_post_used", "w_relock", "w_exit", "w_done"}}

\* a generator between its sem_wait(free_sem) and its sem_post(used_sem)
HoldsFree(w) == pc[w] \in {"w_write_n", "w_write_e", "w_post_used"}

\* C1: the number of outstanding slots (writes issued minus reads completed)
\* is never negative and never exceeds BUFFER_CAPACITY.
CE_C1_OutstandingInRange == Outstanding >= 0 /\ Outstanding <= MAX_DATA

\* C3: the value of registeredWorkers the supervisor observes during its
\* shutdown equals the number of generators that completed registration.
CE_C3_CountIsRegistered == c_pc = "c_fanout" => generator_count = Cardinality(Registered)

\* C4: the supervisor reports best edge count 0 (the graph is 3-colorable)
\* only if a generator published a candidate with 0 edges, and the read that
\* led to the verdict held a used_sem unit and returned a written, unread slot.
CE_C4_VerdictFromPublishedZero ==
  summary = 0 => /\ 0 \in published
                 /\ last_read.permit
                 /\ last_read.kind = "fresh"

\* C5: a generator holding a free_sem unit has exclusive access to
\* removed_edges[wr_pos] against every other generator: two generators
\* between sem_wait(free_sem) and sem_post(used_sem) never have the same wr_pos.
CE_C5_ExclusiveSlot == \A w1 \in Workers : \A w2 \in Workers \ {w1} : ~(HoldsFree(w1) /\ HoldsFree(w2) /\ wr_pos[w1] = wr_pos[w2])

\* the supervisor has set state and finished its sem_post(free_sem) loop
ShutdownDone == c_pc \in {"c_report", "c_cleanup", "c_done"}

\* C2: after the supervisor has performed its shutdown, every generator that
\* had registered eventually terminates.
CE_C2_RegisteredTerminate == \A w \in Workers : (ShutdownDone /\ w \in Registered) ~> (pc[w] = "w_done")

\* C6: every read made with a used_sem unit returns a written candidate that
\* no earlier read returned.
CE_C6_NoWriteReadTwice == last_read.permit => last_read.kind = "fresh"

\* C7: a generator that was blocked on free_sem with the buffer full when the
\* supervisor set state writes nothing into the buffer once it is woken.
CE_C7_WokenWritesNothing == \A w \in blocked_at_shutdown : pc[w] \notin {"w_write_e", "w_post_used", "w_relock"}

\* C9: generator_count and state are read and written only by a process that
\* is between its sem_wait and its sem_post of mutex_sem (the accesses after
\* the supervisor's initialisation are stated).
CE_C9_AccessUnderMutex ==
  /\ \A w \in Workers : pc[w] \in {"w_reg_load", "w_reg_store", "w_check"} => w \in holders
  /\ c_pc \in {"c_set_state", "c_fanout"} => 0 \in holders

\* C10: after k completed writes wr_pos is k mod BUFFER_CAPACITY, and after k
\* completed reads rd_pos is k mod BUFFER_CAPACITY.
CE_C10_WrapOnCapacity ==
  /\ \A w \in Workers : wr_pos[w] = written[w] % MAX_DATA
  /\ rd_pos = nread % MAX_DATA

\* a generator between line 158 and the end of writeBuff
Publishing(w) == pc[w] \in {"w_unlock", "w_wait_free", "w_write_n", "w_write_e", "w_post_used"}

\* C8: every numOfEdges written into a buffer slot lies in 0..MAX_SOLUTION_EDGES,
\* and a generator whose candidate is larger never gets as far as line 158 or
\* sem_wait(free_sem).
T_C8_PublishedWithinLimit ==
  /\ \A p \in DOMAIN buf : buf[p].numOfEdges \in 0..MAX_SOLUTION_EDGES
  /\ \A n \in published : n \in 0..MAX_SOLUTION_EDGES
  /\ \A w \in Workers : Publishing(w) => Len(removed_edges[w]) <= MAX_SOLUTION_EDGES

\* a generator is in its produce loop with a candidate of 13 edges, free_sem
\* is untouched by it, and another generator has published a candidate
W_C8_LargeCandidateDiscarded ==
  \E w \in Workers :
    /\ pc[w] = "w_check"
    /\ state = 0
    /\ Len(removed_edges[w]) > MAX_SOLUTION_EDGES
    /\ written[w] = 0
    /\ \E v \in Workers \ {w} : written[v] > 0 /\ buf # <<>>

\* C11: when sem_wait(used_sem) fails (it returns -1, EINTR) the supervisor
\* terminates at once: it never completes the read of a slot and never posts
\* free_sem for a wait that gave it no used_sem unit.
CE_C11_InterruptedWaitTerminates == c_pc \in {"c_post_free", "c_eval"} => rd_permit

\* C12: state changes only from 0 to 1 and only by line 157 of the supervisor;
\* no step of a generator changes it and no step sets it back to 0.
T_C12_StateSetOnceBySupervisor == [][state' # state => (state = 0 /\ state' = 1 /\ c_pc = "c_set_state")]_vars

\* state has been set and a generator that had published has seen it and left
W_C12_StateSetAndObserved == state = 1 /\ \E w \in Workers : pc[w] = "w_done" /\ written[w] > 0

\* C13: no step of any process lowers generator_count once generators can attach.
CE_C13_CountOnlyIncreases == [][generator_count' >= generator_count]_vars

\* the value of the last completed read has gone through lines 140-153
Evaluated == c_pc \notin {"c_post_free", "c_eval"}

\* the read of a 0, which is less than every read before it and ends the loop
ZeroImproved == IF read_min = 0 THEN 1 ELSE 0

CE_C15_EdgesFromSlotRead == signals = 0 => \A k \in 1..Len(printed) : printed[k].from = printed[k].slot

\* C16: with one generator, the k-th read that holds a used_sem unit returns
\* the k-th candidate the generator wrote.
CE_C16_SingleWorkerFifo == (c_pc = "c_post_free" /\ rd_permit) => last_read.tag = <<1, nread + 1>>

\* C17: the number of sem_post(free_sem) calls of the shutdown loop equals the
\* value generator_count had when state was set.
CE_C17_ReleasesEqualCountAtShutdown == ShutdownDone => i = count_at_shutdown

\* no generator has a graph whose candidates can be published
NeverPublishes == \A w \in Workers : ~(\E cand \in Candidates(edges[w]) : Publishable(Len(cand)))

\* C18: once a signal has set quit, the supervisor eventually sets state and
\* completes its cleanup, also when no generator ever publishes.
CE_C18_SignalLeadsToCleanup == (quit = 1 /\ NeverPublishes) ~> (state = 1 /\ c_pc = "c_done")

\* C19: mutex_sem is 0 or 1, and at most one process is between its
\* sem_wait(mutex_sem) and its next sem_post(mutex_sem).
CE_C19_MutexBinary == mutex_sem \in {0, 1} /\ Cardinality(holders) <= 1

\* C20: the names are unlinked only by the step of lines 172-174 of the
\* supervisor, after state has been set and the loop of lines 160-162 has
\* ended; no step of a generator unlinks them.
T_C20_UnlinkOnlyBySupervisor == [][unlinked' # unlinked => (c_pc = "c_cleanup" /\ state = 1 /\ c_pc' = "c_done")]_vars

\* the names are unlinked and a generator that had registered has left
W_C20_UnlinkedAfterGeneratorLeft == unlinked /\ \E w \in Workers : pc[w] = "w_done"

\* the supervisor has not left its drain loop
BeforeShutdown == c_pc \in {"c_init", "c_loop", "c_wait_used", "c_blocked", "c_read", "c_post_free", "c_eval"}

\* a sem_wait(used_sem) has returned -1 and readBuff has gone on
AcquireFailed == ~rd_permit /\ (c_pc \in {"c_read", "c_post_free"} \/ nread > 0)

\* the supervisor between its sem_wait(used_sem) and its sem_post(free_sem)
HoldsUsed == IF c_pc \in {"c_read", "c_post_free"} /\ rd_permit THEN 1 ELSE 0

\* C21: before the shutdown and as long as no sem_wait has failed, free_sem +
\* used_sem + the generators inside writeBuff past sem_wait(free_sem) + the
\* supervisor inside readBuff past sem_wait(used_sem) is MAX_DATA.
T_C21_PermitsConserved ==
  (BeforeShutdown /\ ~AcquireFailed) =>
    free_sem + used_sem + Cardinality({w \in Workers : HoldsFree(w)}) + HoldsUsed = MAX_DATA

\* a unit is in each of the four places: the generator and the supervisor
\* hold one each while used_sem and free_sem are positive
W_C21_UnitsEverywhere ==
  /\ BeforeShutdown /\ ~AcquireFailed
  /\ used_sem >= 1 /\ free_sem >= 1
  /\ HoldsUsed = 1
  /\ \E w \in Workers : HoldsFree(w)

\* C22: after state has been set, a generator completes at most one more
\* sem_wait(free_sem), hence at most one more write, before it leaves its loop.
T_C22_OneLateAcquire ==
  /\ \A w \in Workers : late_acquires[w] <= 1
  /\ \A w \in Workers : late_acquires[w] = 1 => pc[w] \notin {"w_unlock", "w_wait_free"}

\* a generator took a unit of free_sem after state was set, wrote, and left
W_C22_LateWriteThenLeft == \E w \in Workers : late_acquires[w] = 1 /\ pc[w] = "w_done" /\ written[w] >= 2

====
